---- MODULE Spec2Model ----
(***************************************************************************)
(* State-machine model of frame/rgb3.go: the packed-RGB decoder            *)
(* (newFramerRGB3, frameRGB3, fRGB3.At, fRGB3.Release), the capture        *)
(* pipeline (Snapper.Open, Snapper.Close, Snapper.Snap, Snapper.capture)   *)
(* and the frame-size match (Match, canFit).                               *)
(*                                                                         *)
(* Three goroutines are modelled: the owner (calls Open and Close), the    *)
(* consumer (calls Snap and Frame.Release) and the capture goroutine of    *)
(* each session.  The driver (package webcam) is the environment: its      *)
(* results are chosen nondeterministically.                                *)
(***************************************************************************)
EXTENDS Integers, Sequences, FiniteSets, TLC

\* ------------------------------------------------------------------ bounds
\* Buffers the driver hands out over a run (each GetFrame yields a fresh one).
MaxFrames == 3
\* Device handles webcam.Open hands out over a run (one per session).
MaxOpens == 2
\* Largest width / height drawn for the decoder on its own.
MaxDim == 3
\* Release() calls made on one Frame of the decoder on its own.
MaxReleases == 2
\* Largest min / max / step / value drawn for canFit on its own.
MaxFit == 4
\* Largest range field and dimension drawn for Match on its own.
MaxMatch == 2

\* ------------------------------------------------------- program constants
\* c.cam == nil, and the nil channel of a Snapper that was never opened.
NilCam == 0
NilChan == 0

Handles == 1..MaxOpens
Bufs == 1..MaxFrames
NoBuf == 0

VARIABLES
    \* Snapper fields
    cam,            \* c.cam: NilCam or a handle
    stop,           \* c.stop: NilChan or the channel made by the session
    stream,         \* c.stream: NilChan or the channel made by the session
    framer,         \* c.framer: NilFramer or the decoder record
    padded,         \* the *padded flag
    \* channels (a session's channels carry the session's handle as identity)
    stopFull,       \* stop channels (capacity 1) holding a token
    closedStream,   \* stream channels that were closed
    \* driver
    dev,            \* per handle: "none", "open", "streaming", "closed"
    stopCalled,     \* handles StopStreaming was called on
    nextCam,        \* next handle webcam.Open returns
    nextBuf,        \* next buffer GetFrame returns
    bufs,           \* per buffer: holder, length, session, ReleaseFrame calls
    \* owner goroutine (Open / Close)
    ownPc,          \* where the owner is in Open / Close
    ownRet,         \* the caller Close returns to
    ownErr,         \* what the latest Open returned, until the next call
    drainChan,      \* the channel Close's range loop receives from
    req,            \* Open's arguments while it runs
    closeDrv,       \* Close made a driver call since the owner's latest call
    \* capture goroutines, per session
    capPc, capBuf,
    tick,           \* flips at each timeout of the pending WaitForFrame loop
    drvErr,         \* the driver call whose error capture panicked with
    \* consumer goroutine (Snap / Frame.Release)
    snapPc, snapChan, snapBuf, snapRes, delivered,
    \* the Go process died of a panic
    panicked,
    \* the decoder on its own
    dW, dH, dDec, dBuf, dRel, dOut, dRelCalls, dReleases, dX, dY, dPix, dPc,
    \* the frame-size match on its own: the latest call, its arguments, its result
    fPc, fIn, mIn, fOut

pipeVars == <<cam, stop, stream, framer>>
chanVars == <<stopFull, closedStream>>
drvVars  == <<dev, stopCalled, nextCam, nextBuf, bufs>>
ownVars  == <<ownPc, ownRet, ownErr, drainChan, req, closeDrv>>
capVars  == <<capPc, capBuf, tick, drvErr>>
snapVars == <<snapPc, snapChan, snapBuf, snapRes, delivered>>
fitVars  == <<fPc, fIn, mIn, fOut>>
decVars  == <<dW, dH, dDec, dBuf, dRel, dOut, dRelCalls, dReleases, dX, dY,
             dPix, dPc, fitVars>>
vars == <<pipeVars, padded, chanVars, drvVars, ownVars, capVars, snapVars,
          panicked, decVars>>

\* ----------------------------------------------------------------- decoder
\* a &^ m for a >= 0 and a mask m = 2^k - 1
AndNot(a, m) == a - (a % (m + 1))

\* The i-th byte of a raw buffer: buffers carry the pattern (mul*i + add) % 256.
ByteAt(b, i) == (b.mul * i + b.add) % 256

NoFrame == [none |-> TRUE]

\* Mutant of newFramerRGB3: the padded stride and row count are rounded down.
newFramerRGB3RoundDown(p, w, h) ==
    LET bw   == IF p THEN AndNot(w, 31) ELSE 0
        size == IF p THEN 3 * bw * AndNot(h, 15) ELSE 3 * h * w
    IN  [size |-> size, bw |-> bw, w |-> w, h |-> h]

newFramerRGB3(p, w, h) ==
    LET bw   == IF p THEN AndNot(w + 31, 31) ELSE 0
        size == IF p THEN 3 * bw * AndNot(h + 15, 15) ELSE 3 * h * w
    IN  [size |-> size, bw |-> bw, w |-> w, h |-> h]

\* Mutant of frameRGB3: the mismatch path forgets the deferred rel().
frameRGB3NoRelease(size, bw, w, h, b, rel) ==
    IF b.len # size
    THEN [frame |-> NoFrame, err |-> "WrongLength", relCalls |-> 0]
    ELSE [frame |-> [width |-> bw, w |-> w, h |-> h, frame |-> b, release |-> rel],
          err |-> "nil", relCalls |-> 0]

frameRGB3(size, bw, w, h, b, rel) ==
    IF b.len # size
    THEN [frame |-> NoFrame, err |-> "WrongLength",
          relCalls |-> IF rel THEN 1 ELSE 0]
    ELSE [frame |-> [width |-> bw, w |-> w, h |-> h, frame |-> b, release |-> rel],
          err |-> "nil", relCalls |-> 0]

\* The decoder closure newFramerRGB3 returns, applied to (b, rel).
Decode(dec, b, rel) == frameRGB3(dec.size, dec.bw, dec.w, dec.h, b, rel)

At(f, x, y) ==
    LET i == f.width * y * 3 + x * 3
    IN  IF i + 2 >= f.frame.len
        THEN <<"panic">>
        ELSE <<ByteAt(f.frame, i), ByteAt(f.frame, i + 1), ByteAt(f.frame, i + 2), 255>>

\* Calls of the release callback made by one Frame.Release().
Release(f) == IF f.release THEN 1 ELSE 0


\* -------------------------------------------------------- frame-size match
\* The operands are uint32.  val - min is evaluated only after val >= min held
\* (&& short-circuits), so the subtraction never wraps; uint32(w) is w for the
\* non-negative w, h the model draws.
\* Mutant of canFit: the step test is lost, any value of the range fits.
canFitNoStep(min, max, step, val) ==
    IF min = max /\ step = 0 /\ val = min
    THEN TRUE
    ELSE step # 0 /\ val >= min /\ val <= max

canFit(min, max, step, val) ==
    IF min = max /\ step = 0 /\ val = min
    THEN TRUE
    ELSE step # 0 /\ val >= min /\ val <= max /\ ((val - min) % step) = 0

Match(fs, w, h) ==
    /\ canFit(fs.MinWidth, fs.MaxWidth, fs.StepWidth, w)
    /\ canFit(fs.MinHeight, fs.MaxHeight, fs.StepHeight, h)

\* ------------------------------------------------------------- environment
\* Format codes Open is called with: one with a registered decoder, one that is
\* a valid code without a decoder, one that is no four-character code.
Formats == {"RGB3", "H264", "BAD"}
FourCCToPixelFormat(f) == IF f = "BAD" THEN "err" ELSE f
NilFramer == [nil |-> TRUE]
GetFramer(f, p, w, h) == IF f = "RGB3" THEN newFramerRGB3(p, w, h) ELSE NilFramer

\* Width and height Open is called with.
ReqDims == {<<2, 2>>, <<3, 2>>}

\* What GetSupportedFrameSizes reports: one discrete size, one stepwise range.
FrameSizes ==
    { [MinWidth |-> 2, MaxWidth |-> 2, StepWidth |-> 0,
       MinHeight |-> 2, MaxHeight |-> 2, StepHeight |-> 0],
      [MinWidth |-> 4, MaxWidth |-> 8, StepWidth |-> 4,
       MinHeight |-> 2, MaxHeight |-> 4, StepHeight |-> 2] }

\* What the driver answers during one Open: whether the format is in its set,
\* whether SetImageFormat and StartStreaming succeed, and by how much
\* SetImageFormat adjusts the width.
DriverScenarios ==
    [fmt : BOOLEAN, setOk : BOOLEAN, adj : {0, 1}, startOk : BOOLEAN]

WaitResults == {"ok", "timeout", "error"}

\* The buffer lengths GetFrame returns on a device whose negotiated size is n.
DriverLens(n) == {n, n + 1}

\* ------------------------------------------------------------------- state
NoReq == [format |-> "none", w |-> 0, h |-> 0]
FreshBuf == [st |-> "unused", len |-> 0, sess |-> NilCam, rel |-> 0, relCam |-> NilCam,
             by |-> "none"]
FreshDev == [st |-> "none", size |-> 0, w |-> 0, h |-> 0]
IdleDec == [size |-> 0, bw |-> 0, w |-> 0, h |-> 0]
NoRaw == [len |-> 0, mul |-> 0, add |-> 0]
NoOut == [frame |-> NoFrame, err |-> "none", relCalls |-> 0]
NoFit == [min |-> 0, max |-> 0, step |-> 0, val |-> 0]
NoSize == [MinWidth |-> 0, MaxWidth |-> 0, StepWidth |-> 0,
           MinHeight |-> 0, MaxHeight |-> 0, StepHeight |-> 0]
NoMatch == [fs |-> NoSize, w |-> 0, h |-> 0]

\* NewSnapper: every field but Timeout and Buffers is the zero value.
NewSnapper ==
    /\ cam = NilCam
    /\ stop = NilChan
    /\ stream = NilChan
    /\ framer = NilFramer

DecIdle ==
    /\ dW = 0 /\ dH = 0 /\ dDec = IdleDec /\ dBuf = NoRaw /\ dRel = FALSE
    /\ dOut = NoOut /\ dRelCalls = 0 /\ dReleases = 0
    /\ dX = 0 /\ dY = 0 /\ dPix = <<>>
    /\ dPc = "idle"
    /\ fPc = "idle" /\ fIn = NoFit /\ mIn = NoMatch /\ fOut = FALSE

PipeIdle ==
    /\ NewSnapper
    /\ stopFull = {} /\ closedStream = {}
    /\ dev = [h \in Handles |-> FreshDev]
    /\ stopCalled = {}
    /\ nextCam = 1 /\ nextBuf = 1
    /\ bufs = [b \in Bufs |-> FreshBuf]
    /\ ownPc = "idle" /\ ownRet = "none" /\ ownErr = "none"
    /\ drainChan = NilChan /\ req = NoReq /\ closeDrv = FALSE
    /\ capPc = [h \in Handles |-> "none"]
    /\ capBuf = [h \in Handles |-> NoBuf]
    /\ tick = FALSE
    /\ drvErr = "none"
    /\ snapPc = "idle" /\ snapChan = NilChan /\ snapBuf = NoBuf
    /\ snapRes = "none" /\ delivered = <<>>
    /\ panicked = FALSE

\* The pipeline after NewSnapper, with the padding flag at its default.
Init ==
    /\ padded = FALSE
    /\ PipeIdle
    /\ DecIdle

\* A decoder about to be built, under either setting of the padding flag.
DecInit ==
    /\ padded \in BOOLEAN
    /\ PipeIdle
    /\ DecIdle

\* ------------------------------------------------------------------ driver
\* c.cam.ReleaseFrame(index), with the handle c.cam holds at the call.
ReleaseFrame(bs, b, h) == [bs EXCEPT ![b].rel = @ + 1, ![b].relCam = h]

\* A driver call through a nil handle may take the process down.
NilCrash(h) == IF h = NilCam THEN BOOLEAN ELSE {FALSE}

\* Ownership of buffer b passes to holder st ("snap": the Snap call that
\* received it, "frame": the Frame the consumer holds).
Hold(bs, b, st) == [bs EXCEPT ![b].st = st]

\* Buffer b leaves its last holder, which is party by; its bytes are no longer
\* the program's to read.
Gone(bs, b, by) == [bs EXCEPT ![b].st = "gone", ![b].by = by, ![b].len = 0]

\* Mutants of DropFrame, StopFrame, DrainFrame: the ReleaseFrame call is lost.
DropFrameLeak(bs, b, h) == Gone(bs, b, "drop")
StopFrameLeak(bs, b, h) == Gone(bs, b, "stop")
DrainFrameLeak(bs, b, h) == Gone(bs, b, "drain")

\* capture, line 226: the dropped frame goes back to the driver.
DropFrame(bs, b, h) == Gone(ReleaseFrame(bs, b, h), b, "drop")

\* capture, line 222: the frame fetched when the stop request wins goes back.
StopFrame(bs, b, h) == Gone(ReleaseFrame(bs, b, h), b, "stop")

\* Close, lines 118-120: a frame received by the drain loop goes back.
DrainFrame(bs, b, h) == Gone(ReleaseFrame(bs, b, h), b, "drain")

\* Snap, lines 193-195: the closure handed to the decoder, run n times.
RunRelease(bs, b, h, n) ==
    IF n = 0 THEN bs
    ELSE IF n = 1 THEN ReleaseFrame(bs, b, h)
    ELSE ReleaseFrame(ReleaseFrame(bs, b, h), b, h)


\* ------------------------------------------------------------------- owner
\* Where Close returns to: its caller is the owner, Open's line 134, or
\* Open's deferred rollback.
CloseReturn(ret) == IF ret = "Open" THEN "OpenDev" ELSE "idle"

\* Open's arguments live while Open runs.
ReqAfter(pc) == IF pc = "idle" THEN NoReq ELSE req

\* The owner calls Close().
CloseCall ==
    /\ ~panicked
    /\ ownPc = "idle"
    /\ ownPc' = "Close"
    /\ ownRet' = "none"
    /\ ownErr' = "none"
    /\ closeDrv' = FALSE
    /\ UNCHANGED <<pipeVars, padded, chanVars, drvVars, drainChan, req,
                   capVars, snapVars, panicked, decVars>>

\* Mutant of Close: the c.cam != nil test is lost.
CloseNoCheck ==
    /\ ~panicked
    /\ ownPc = "Close"
    /\ stop \notin stopFull
    /\ stopFull' = stopFull \cup {stop}
    /\ ownPc' = "Drain"
    /\ drainChan' = stream
    /\ UNCHANGED <<ownRet, req, pipeVars, padded, closedStream, drvVars, ownErr,
                   closeDrv, capVars, snapVars, panicked, decVars>>

\* Close, lines 115-116: nothing to do on a nil handle; otherwise the stop
\* request is sent (the send blocks while the 1-slot channel is full).
Close ==
    /\ ~panicked
    /\ ownPc = "Close"
    /\ IF cam = NilCam
       THEN /\ ownPc' = CloseReturn(ownRet)
            /\ ownRet' = "none"
            /\ UNCHANGED <<stopFull, drainChan>>
       ELSE /\ stop \notin stopFull
            /\ stopFull' = stopFull \cup {stop}
            /\ ownPc' = "Drain"
            /\ drainChan' = stream
            /\ UNCHANGED ownRet
    /\ req' = ReqAfter(ownPc')
    /\ UNCHANGED <<pipeVars, padded, closedStream, drvVars, ownErr, closeDrv, capVars,
                   snapVars, panicked, decVars>>

\* Mutant of CloseFinish: Close does not wait for the delivery channel to be
\* closed before it tears the device down.
CloseFinishNoDrain ==
    /\ ~panicked
    /\ ownPc = "Drain"
    /\ stopCalled' = stopCalled \cup {cam}
    /\ dev' = [dev EXCEPT ![cam] = [st |-> "closed", size |-> 0, w |-> 0, h |-> 0]]
    /\ closeDrv' = TRUE
    /\ cam' = NilCam
    /\ ownPc' = CloseReturn(ownRet)
    /\ ownRet' = "none"
    /\ req' = ReqAfter(ownPc')
    /\ UNCHANGED <<stop, stream, framer, padded, chanVars, nextCam, nextBuf, bufs,
                   ownErr, drainChan, capVars, snapVars, panicked, decVars>>

\* Close, lines 118-123: the range loop ends on the closed channel; the stream
\* is stopped, the device closed and the handle cleared.
CloseFinish ==
    /\ ~panicked
    /\ ownPc = "Drain"
    /\ drainChan \in closedStream
    /\ stopCalled' = stopCalled \cup {cam}
    /\ dev' = [dev EXCEPT ![cam] = [st |-> "closed", size |-> 0, w |-> 0, h |-> 0]]
    /\ closeDrv' = TRUE
    /\ cam' = NilCam
    /\ ownPc' = CloseReturn(ownRet)
    /\ ownRet' = "none"
    /\ req' = ReqAfter(ownPc')
    /\ UNCHANGED <<stop, stream, framer, padded, chanVars, nextCam, nextBuf, bufs,
                   ownErr, drainChan, capVars, snapVars, panicked, decVars>>

\* Open, lines 129-135: resolve the format; close first when already open.
OpenCall(f, w, h) ==
    /\ ~panicked
    /\ ownPc = "idle"
    /\ nextCam <= MaxOpens
    /\ IF FourCCToPixelFormat(f) = "err"
       THEN /\ ownErr' = "FourCC"
            /\ UNCHANGED <<ownPc, ownRet, req>>
       ELSE /\ ownErr' = "none"
            /\ req' = [format |-> f, w |-> w, h |-> h]
            /\ IF cam # NilCam
               THEN ownPc' = "Close" /\ ownRet' = "Open"
               ELSE ownPc' = "OpenDev" /\ ownRet' = "none"
    /\ closeDrv' = FALSE
    /\ UNCHANGED <<pipeVars, padded, chanVars, drvVars, drainChan,
                   capVars, snapVars, panicked, decVars>>

\* Open, lines 136-149: acquire the device, make the two channels.
OpenDev ==
    /\ ~panicked
    /\ ownPc = "OpenDev"
    /\ \E ok \in BOOLEAN :
         IF ok
         THEN /\ cam' = nextCam
              /\ stop' = nextCam
              /\ stream' = nextCam
              /\ dev' = [dev EXCEPT ![nextCam].st = "open"]
              /\ nextCam' = nextCam + 1
              /\ ownPc' = "OpenNeg"
              /\ UNCHANGED ownErr
         ELSE /\ ownErr' = "webcam.Open"
              /\ ownPc' = "idle"
              /\ UNCHANGED <<cam, stop, stream, dev, nextCam>>
    /\ req' = ReqAfter(ownPc')
    /\ UNCHANGED <<framer, padded, chanVars, stopCalled, nextBuf, bufs, ownRet,
                   drainChan, closeDrv, capVars, snapVars, panicked, decVars>>

\* The error Open, lines 151-182, ends with under driver answers d ("nil": none).
OpenErr(d) ==
    IF ~d.fmt THEN "unsupported format"
    ELSE IF ~(\E fs \in FrameSizes : Match(fs, req.w, req.h))
         THEN "unsupported resolution"
    ELSE IF ~d.setOk THEN "SetImageFormat"
    ELSE IF GetFramer(req.format, padded, req.w, req.h) = NilFramer THEN "GetFramer"
    ELSE IF ~d.startOk THEN "StartStreaming"
    ELSE "nil"

\* Mutant of RollbackStream: the deferred function only calls c.Close().
RollbackStreamNoClose(cs, ch) == cs

\* Open's deferred function, line 143: close(c.stream).
RollbackStream(cs, ch) == cs \cup {ch}

\* Open, line 166: what SetImageFormat returns under driver answers d for the
\* requested w, h: the negotiated width and height and the frame size in bytes.
SetImageFormat(d, w, h) ==
    [w |-> w + d.adj, h |-> h, size |-> newFramerRGB3(padded, w + d.adj, h).size]

\* Whether Open got as far as SetImageFormat succeeding / as line 174.
Negotiated(d) == OpenErr(d) \in {"GetFramer", "StartStreaming", "nil"}

\* Open, lines 151-185, and on an error the deferred close(c.stream).
OpenNeg ==
    /\ ~panicked
    /\ ownPc = "OpenNeg"
    /\ \E d \in DriverScenarios :
         LET err == OpenErr(d)
             neg == SetImageFormat(d, req.w, req.h)
         IN  /\ ownErr' = err
             /\ closeDrv' = FALSE
             /\ framer' = IF Negotiated(d)
                          THEN GetFramer(req.format, padded, req.w, req.h)
                          ELSE framer
             /\ IF err = "nil"
                THEN /\ dev' = [dev EXCEPT ![cam] = [st |-> "streaming", size |-> neg.size,
                                                     w |-> neg.w, h |-> neg.h]]
                     /\ capPc' = [capPc EXCEPT ![cam] = "wait"]
                     /\ ownPc' = "idle"
                     /\ UNCHANGED <<closedStream, ownRet, panicked>>
                ELSE /\ dev' = IF Negotiated(d)
                               THEN [dev EXCEPT ![cam].size = neg.size,
                                                ![cam].w = neg.w, ![cam].h = neg.h]
                               ELSE dev
                     /\ IF stream \in closedStream
                        THEN panicked' = TRUE /\ UNCHANGED <<closedStream, ownPc, ownRet>>
                        ELSE /\ closedStream' = RollbackStream(closedStream, stream)
                             /\ ownPc' = "Close"
                             /\ ownRet' = "Rollback"
                             /\ UNCHANGED panicked
                     /\ UNCHANGED capPc
    /\ req' = ReqAfter(ownPc')
    /\ UNCHANGED <<cam, stop, stream, padded, stopFull, stopCalled, nextCam, nextBuf,
                   bufs, drainChan, capBuf, tick, drvErr, snapVars, decVars>>


\* ----------------------------------------------------------------- capture
\* Mutant of CaptureWait: an error other than a timeout is retried like one.
CaptureWaitRetry(s) ==
    /\ ~panicked
    /\ capPc[s] = "wait"
    /\ \E r \in WaitResults :
         IF cam = NilCam
         THEN panicked' = TRUE /\ tick' = FALSE /\ UNCHANGED <<capPc, drvErr>>
         ELSE CASE r = "ok" ->
                     /\ nextBuf <= MaxFrames
                     /\ capPc' = [capPc EXCEPT ![s] = "get"]
                     /\ tick' = FALSE
                     /\ UNCHANGED <<panicked, drvErr>>
                [] r = "timeout" ->
                     /\ tick' = ~tick
                     /\ UNCHANGED <<capPc, panicked, drvErr>>
                [] OTHER ->
                     /\ drvErr' = "WaitForFrame"
                     /\ tick' = ~tick
                     /\ UNCHANGED <<capPc, panicked>>
    /\ UNCHANGED <<pipeVars, padded, chanVars, drvVars, ownVars, capBuf, snapVars,
                   decVars>>

\* capture, lines 202-210: WaitForFrame succeeds, times out, or fails.
CaptureWait(s) ==
    /\ ~panicked
    /\ capPc[s] = "wait"
    /\ \E r \in WaitResults :
         IF cam = NilCam
         THEN panicked' = TRUE /\ tick' = FALSE /\ UNCHANGED <<capPc, drvErr>>
         ELSE CASE r = "ok" ->
                     /\ nextBuf <= MaxFrames
                     /\ capPc' = [capPc EXCEPT ![s] = "get"]
                     /\ tick' = FALSE
                     /\ UNCHANGED <<panicked, drvErr>>
                [] r = "timeout" ->
                     /\ tick' = ~tick
                     /\ UNCHANGED <<capPc, panicked, drvErr>>
                [] OTHER ->
                     /\ panicked' = TRUE
                     /\ capPc' = [capPc EXCEPT ![s] = "failed"]
                     /\ drvErr' = "WaitForFrame"
                     /\ UNCHANGED tick
    /\ UNCHANGED <<pipeVars, padded, chanVars, drvVars, ownVars, capBuf, snapVars,
                   decVars>>

\* capture, lines 212-215: GetFrame yields the next buffer, or fails.
CaptureGet(s) ==
    /\ ~panicked
    /\ capPc[s] = "get"
    /\ \E ok \in BOOLEAN :
         IF cam = NilCam
         THEN panicked' = TRUE /\ UNCHANGED <<bufs, capBuf, nextBuf, capPc, drvErr>>
         ELSE IF ok
         THEN \E n \in DriverLens(dev[cam].size) :
                /\ bufs' = [bufs EXCEPT ![nextBuf] =
                               [st |-> "capture", len |-> n, sess |-> cam,
                                rel |-> 0, relCam |-> NilCam, by |-> "none"]]
                /\ capBuf' = [capBuf EXCEPT ![s] = nextBuf]
                /\ nextBuf' = nextBuf + 1
                /\ capPc' = [capPc EXCEPT ![s] = "select"]
                /\ UNCHANGED <<panicked, drvErr>>
         ELSE /\ panicked' = TRUE
              /\ capPc' = [capPc EXCEPT ![s] = "failed"]
              /\ drvErr' = "GetFrame"
              /\ UNCHANGED <<bufs, capBuf, nextBuf>>
    /\ UNCHANGED <<pipeVars, padded, chanVars, dev, stopCalled, nextCam, ownVars,
                   tick, snapVars, decVars>>

\* The cases of the select of lines 216-227 that can proceed.
SnapReady == snapPc = "parked" /\ snapChan = stream /\ stream # NilChan
DrainReady == ownPc = "Drain" /\ drainChan = stream /\ stream # NilChan
StopReady == stop # NilChan /\ stop \in stopFull

\* Mutant of CaptureSendSnap: after the send the loop does not fetch a new
\* frame, it offers the same snap again.
CaptureSendSnapStale(s) ==
    /\ ~panicked
    /\ capPc[s] = "select"
    /\ stream \notin closedStream
    /\ SnapReady
    /\ bufs' = Hold(bufs, capBuf[s], "snap")
    /\ snapBuf' = capBuf[s]
    /\ snapPc' = "decode"
    /\ UNCHANGED <<pipeVars, padded, chanVars, dev, stopCalled, nextCam, nextBuf,
                   ownVars, capVars, snapChan, snapRes, delivered, panicked,
                   decVars>>

\* select, line 218, with Snap as the receiver (line 189).
CaptureSendSnap(s) ==
    /\ ~panicked
    /\ capPc[s] = "select"
    /\ stream \notin closedStream
    /\ SnapReady
    /\ bufs' = Hold(bufs, capBuf[s], "snap")
    /\ snapBuf' = capBuf[s]
    /\ snapPc' = "decode"
    /\ capBuf' = [capBuf EXCEPT ![s] = NoBuf]
    /\ capPc' = [capPc EXCEPT ![s] = "wait"]
    /\ UNCHANGED <<pipeVars, padded, chanVars, dev, stopCalled, nextCam, nextBuf,
                   ownVars, tick, drvErr, snapChan, snapRes, delivered, panicked,
                   decVars>>

\* select, line 218, with Close's drain loop as the receiver (lines 118-120).
CaptureSendDrain(s) ==
    /\ ~panicked
    /\ capPc[s] = "select"
    /\ stream \notin closedStream
    /\ DrainReady
    /\ bufs' = DrainFrame(bufs, capBuf[s], cam)
    /\ closeDrv' = TRUE
    /\ capBuf' = [capBuf EXCEPT ![s] = NoBuf]
    /\ capPc' = [capPc EXCEPT ![s] = "wait"]
    /\ UNCHANGED <<pipeVars, padded, chanVars, dev, stopCalled, nextCam, nextBuf,
                   ownPc, ownRet, ownErr, drainChan, req, tick, drvErr, snapVars,
                   panicked, decVars>>

\* Mutant of CaptureStop: the return of line 224 is lost, the loop goes on.
CaptureStopNoReturn(s) ==
    /\ ~panicked
    /\ capPc[s] = "select"
    /\ StopReady
    /\ stopFull' = stopFull \ {stop}
    /\ bufs' = StopFrame(bufs, capBuf[s], cam)
    /\ IF stream \in closedStream \/ stream = NilChan
       THEN panicked' = TRUE /\ UNCHANGED closedStream
       ELSE closedStream' = closedStream \cup {stream} /\ UNCHANGED panicked
    /\ capBuf' = [capBuf EXCEPT ![s] = NoBuf]
    /\ capPc' = [capPc EXCEPT ![s] = "wait"]
    /\ UNCHANGED <<pipeVars, padded, dev, stopCalled, nextCam, nextBuf, ownVars,
                   tick, drvErr, snapVars, decVars>>

\* select, lines 220-224: the stop request is taken.
CaptureStop(s) ==
    /\ ~panicked
    /\ capPc[s] = "select"
    /\ StopReady
    /\ stopFull' = stopFull \ {stop}
    /\ bufs' = StopFrame(bufs, capBuf[s], cam)
    /\ IF stream \in closedStream \/ stream = NilChan
       THEN panicked' = TRUE /\ UNCHANGED closedStream
       ELSE closedStream' = closedStream \cup {stream} /\ UNCHANGED panicked
    /\ capBuf' = [capBuf EXCEPT ![s] = NoBuf]
    /\ capPc' = [capPc EXCEPT ![s] = "done"]
    /\ UNCHANGED <<pipeVars, padded, dev, stopCalled, nextCam, nextBuf, ownVars,
                   tick, drvErr, snapVars, decVars>>

\* Mutant of CaptureDefault: the frame is kept for a later handoff instead of
\* being released, and the loop fetches the next one.
CaptureDefaultKeep(s) ==
    /\ ~panicked
    /\ capPc[s] = "select"
    /\ ~SnapReady /\ ~DrainReady /\ ~StopReady
    /\ capPc' = [capPc EXCEPT ![s] = "wait"]
    /\ UNCHANGED <<pipeVars, padded, chanVars, drvVars, ownVars, capBuf, tick, drvErr,
                   snapVars, panicked, decVars>>

\* select, lines 225-226: no other case can proceed, the frame is dropped.
\* (A send on a closed channel can always proceed, and panics.)
CaptureDefault(s) ==
    /\ ~panicked
    /\ capPc[s] = "select"
    /\ ~SnapReady /\ ~DrainReady /\ ~StopReady
    /\ IF stream \in closedStream
       THEN /\ panicked' = TRUE
            /\ UNCHANGED <<bufs, capBuf, capPc>>
       ELSE /\ bufs' = DropFrame(bufs, capBuf[s], cam)
            /\ capBuf' = [capBuf EXCEPT ![s] = NoBuf]
            /\ capPc' = [capPc EXCEPT ![s] = "wait"]
            /\ panicked' \in NilCrash(cam)
    /\ UNCHANGED <<pipeVars, padded, chanVars, dev, stopCalled, nextCam, nextBuf,
                   ownVars, tick, drvErr, snapPc, snapChan, snapBuf, snapRes, delivered,
                   decVars>>

\* ---------------------------------------------------------------- consumer
\* Snap, line 189: the consumer parks on the channel c.stream holds now.
SnapCall ==
    /\ ~panicked
    /\ snapPc = "idle"
    /\ snapPc' = "parked"
    /\ snapChan' = stream
    /\ snapRes' = "none"
    /\ UNCHANGED <<pipeVars, padded, chanVars, drvVars, ownVars, capVars, snapBuf,
                   delivered, panicked, decVars>>

\* Mutant of SnapClosed: the !ok test is lost and the zero snap is decoded.
SnapClosedNoCheck ==
    /\ ~panicked
    /\ snapPc = "parked"
    /\ snapChan \in closedStream
    /\ snapPc' = "idle"
    /\ snapRes' = "WrongLength"
    /\ UNCHANGED <<pipeVars, padded, chanVars, drvVars, ownVars, capVars, snapChan,
                   snapBuf, delivered, panicked, decVars>>

\* Snap, lines 189-192: the receive ends on the closed channel.
SnapClosed ==
    /\ ~panicked
    /\ snapPc = "parked"
    /\ snapChan \in closedStream
    /\ snapPc' = "idle"
    /\ snapRes' = "No frame received"
    /\ UNCHANGED <<pipeVars, padded, chanVars, drvVars, ownVars, capVars, snapChan,
                   snapBuf, delivered, panicked, decVars>>

\* Snap, lines 193-195: the decoder is called with the release closure, which
\* reads c.cam when it runs.
SnapDecode ==
    /\ ~panicked
    /\ snapPc = "decode"
    /\ IF framer = NilFramer
       THEN /\ panicked' = TRUE
            /\ UNCHANGED <<bufs, snapPc, snapBuf, snapRes, delivered>>
       ELSE LET r == Decode(framer, bufs[snapBuf], TRUE)
            IN  /\ snapPc' = "idle"
                /\ snapBuf' = NoBuf
                /\ IF r.err = "nil"
                   THEN /\ bufs' = Hold(bufs, snapBuf, "frame")
                        /\ snapRes' = "frame"
                        /\ delivered' = Append(delivered, snapBuf)
                        /\ UNCHANGED panicked
                   ELSE /\ bufs' = Gone(RunRelease(bufs, snapBuf, cam, r.relCalls),
                                        snapBuf, "decode")
                        /\ snapRes' = r.err
                        /\ panicked' \in NilCrash(cam)
                        /\ UNCHANGED delivered
    /\ UNCHANGED <<pipeVars, padded, chanVars, dev, stopCalled, nextCam, nextBuf,
                   ownVars, capVars, snapChan, decVars>>

\* The consumer calls Release() on a Frame Snap returned (once per Frame).
FrameRelease(b) ==
    /\ ~panicked
    /\ bufs[b].st = "frame"
    /\ bufs' = Gone(RunRelease(bufs, b, cam, Release([release |-> TRUE])),
                    b, "consumer")
    /\ panicked' \in NilCrash(cam)
    /\ UNCHANGED <<pipeVars, padded, chanVars, dev, stopCalled, nextCam, nextBuf,
                   ownVars, capVars, snapVars, decVars>>

Next ==
    \/ CloseCall
    \/ Close
    \/ CloseFinish
    \/ \E f \in Formats, d \in ReqDims : OpenCall(f, d[1], d[2])
    \/ OpenDev
    \/ OpenNeg
    \/ \E s \in Handles : CaptureWait(s)
    \/ \E s \in Handles : CaptureGet(s)
    \/ \E s \in Handles : CaptureSendSnap(s)
    \/ \E s \in Handles : CaptureSendDrain(s)
    \/ \E s \in Handles : CaptureStop(s)
    \/ \E s \in Handles : CaptureDefault(s)
    \/ SnapCall
    \/ SnapClosed
    \/ SnapDecode
    \/ \E b \in Bufs : FrameRelease(b)

Spec == Init /\ [][Next]_vars

\* Scheduling: a goroutine that can run does run, and a select whose stop case
\* is ready again and again takes it (Go picks among ready cases at random).
\* Nothing is assumed of the driver: WaitForFrame may time out forever.
Owner == Close \/ CloseFinish \/ OpenDev \/ OpenNeg
Capture(s) ==
    \/ CaptureWait(s) \/ CaptureGet(s) \/ CaptureSendSnap(s)
    \/ CaptureSendDrain(s) \/ CaptureStop(s) \/ CaptureDefault(s)
Consumer == SnapClosed \/ SnapDecode

FairSpec ==
    /\ Spec
    /\ WF_vars(Owner)
    /\ WF_vars(Consumer)
    /\ \A s \in Handles : WF_vars(Capture(s)) /\ SF_vars(CaptureStop(s))


\* ------------------------------------------------- the decoder on its own
\* Raw buffers handed to a decoder that expects n bytes.
RawBufs(n) ==
    [len : {0, n, n + 1} \cup (IF n > 0 THEN {n - 1} ELSE {}),
     mul : {1, 7}, add : {0, 250}]

pipeAll == <<pipeVars, chanVars, drvVars, ownVars, capVars, snapVars, panicked>>

\* newFramerRGB3(w, h) under the *padded flag.
DecNew(w, h) ==
    /\ dPc = "idle"
    /\ dW' = w /\ dH' = h
    /\ dDec' = newFramerRGB3(padded, w, h)
    /\ dPc' = "ready"
    /\ UNCHANGED <<pipeAll, padded, fitVars,
                   dBuf, dRel, dOut, dRelCalls, dReleases, dX, dY, dPix>>

\* The decoder is called on buffer b, with a release callback or with nil.
DecCall(b, rel) ==
    /\ dPc = "ready"
    /\ dBuf' = b /\ dRel' = rel
    /\ dOut' = Decode(dDec, b, rel)
    /\ dRelCalls' = dOut'.relCalls
    /\ dPc' = IF dOut'.err = "nil" THEN "frame" ELSE "failed"
    /\ UNCHANGED <<pipeAll, padded, fitVars,
                   dW, dH, dDec, dReleases, dX, dY, dPix>>

\* Frame.At(x, y) inside the bounds.
DecAt(x, y) ==
    /\ dPc = "frame"
    /\ x < dW /\ y < dH
    /\ dX' = x /\ dY' = y
    /\ dPix' = At(dOut.frame, x, y)
    /\ UNCHANGED <<pipeAll, padded, fitVars,
                   dW, dH, dDec, dBuf, dRel, dOut, dRelCalls, dReleases, dPc>>

\* Frame.Release().
DecRelease ==
    /\ dPc = "frame"
    /\ dReleases < MaxReleases
    /\ dReleases' = dReleases + 1
    /\ dRelCalls' = dRelCalls + Release(dOut.frame)
    /\ UNCHANGED <<pipeAll, padded, fitVars,
                   dW, dH, dDec, dBuf, dRel, dOut, dX, dY, dPix, dPc>>

\* Widths and heights the decoder is built for: the small ones, and ones at and
\* around the padding boundaries.
DecWidths == (1..MaxDim) \cup {32, 33, 50}
DecHeights == (1..MaxDim) \cup {10, 16, 17}

DecNext ==
    \/ \E w \in DecWidths, h \in DecHeights : DecNew(w, h)
    \/ \E b \in RawBufs(dDec.size), rel \in BOOLEAN : DecCall(b, rel)
    \/ \E x \in 0..(MaxDim - 1), y \in 0..(MaxDim - 1) : DecAt(x, y)
    \/ DecRelease

DecSpec == DecInit /\ [][DecNext]_vars


\* ----------------------------------------- the frame-size match on its own
decOnly == <<dW, dH, dDec, dBuf, dRel, dOut, dRelCalls, dReleases, dX, dY, dPix, dPc>>

\* Frame sizes a driver may report, every field drawn from 0..MaxMatch.
MatchSizes ==
    [MinWidth : 0..MaxMatch, MaxWidth : 0..MaxMatch, StepWidth : 0..MaxMatch,
     MinHeight : 0..MaxMatch, MaxHeight : 0..MaxMatch, StepHeight : 0..MaxMatch]

\* canFit(min, max, step, val) is called.
FitCall ==
    /\ fPc = "idle"
    /\ \E min \in 0..MaxFit, max \in 0..MaxFit, step \in 0..MaxFit, val \in 0..MaxFit :
          /\ fIn' = [min |-> min, max |-> max, step |-> step, val |-> val]
          /\ fOut' = canFit(min, max, step, val)
    /\ fPc' = "canFit"
    /\ mIn' = NoMatch
    /\ UNCHANGED <<pipeAll, padded, decOnly>>

\* Match(fs, w, h) is called.
MatchCall ==
    /\ fPc = "idle"
    /\ \E fs \in MatchSizes, w \in 0..MaxMatch, h \in 0..MaxMatch :
          /\ mIn' = [fs |-> fs, w |-> w, h |-> h]
          /\ fOut' = Match(fs, w, h)
    /\ fPc' = "Match"
    /\ fIn' = NoFit
    /\ UNCHANGED <<pipeAll, padded, decOnly>>

\* The caller is done with the result.
FitReturn ==
    /\ fPc # "idle"
    /\ fPc' = "idle" /\ fIn' = NoFit /\ mIn' = NoMatch /\ fOut' = FALSE
    /\ UNCHANGED <<pipeAll, padded, decOnly>>

FitNext ==
    \/ FitCall
    \/ MatchCall
    \/ FitReturn

FitSpec == Init /\ [][FitNext]_vars


\* ------------------------------------------------------------------ claims
Fetched(b) == bufs[b].st # "unused"
Held(b) == bufs[b].st \in {"capture", "snap", "frame"}
NoCapture == \A s \in Handles : capPc[s] \in {"none", "done"}

\* C1: every buffer GetFrame returned has had ReleaseFrame invoked for it at
\* most once, not at all while a party (capture, a Snap call, a Frame of the
\* consumer) still holds it, and exactly once as soon as no party holds it.
C1_ExactlyOnceRelease ==
    \A b \in Bufs :
        /\ bufs[b].rel <= 1
        /\ (Held(b) \/ ~Fetched(b)) => bufs[b].rel = 0
        /\ bufs[b].st = "gone" => bufs[b].rel = 1

\* Buffers released by the stop branch, by Close's drain loop and by the
\* consumer's Frame.Release, each exactly once.
C1_Witness ==
    /\ \E b \in Bufs : bufs[b].by = "stop" /\ bufs[b].rel = 1
    /\ \E b \in Bufs : bufs[b].by = "drain" /\ bufs[b].rel = 1
    /\ \E b \in Bufs : bufs[b].by = "consumer" /\ bufs[b].rel = 1

\* The step on which Close returns from a call made on an open pipeline.
CloseReturns == ownPc = "Drain" /\ ownPc' # "Drain"

\* What holds of the driver and the capture goroutine when Close returns.
CloseTeardown ==
    /\ cam' = NilCam
    /\ cam \in stopCalled'
    /\ dev'[cam].st = "closed"
    /\ \A s \in Handles : capPc'[s] \in {"none", "done"}

C3_CloseReturns ==
    (ownPc = "Close") ~> (ownPc \notin {"Close", "Drain"} \/ panicked)

\* C4: once Close has returned, the delivery channel c.stream holds is closed;
\* a Snap call parked on a closed channel can return without anyone else acting,
\* and when it returns it returns "No frame received" and no Frame.
C4_SnapAfterClose ==
    /\ [](ownPc = "idle" /\ cam = NilCam /\ stream # NilChan => stream \in closedStream)
    /\ []((snapPc = "parked" /\ snapChan \in closedStream /\ ~panicked)
            => ENABLED SnapClosed)
    /\ [][(snapPc = "parked" /\ snapChan \in closedStream /\ snapPc' # "parked") =>
            /\ snapPc' = "idle"
            /\ snapRes' = "No frame received"
            /\ snapBuf' = NoBuf
            /\ UNCHANGED bufs]_vars

\* A Snap call returned "No frame received" on a pipeline Close has closed.
C4_Witness ==
    /\ snapPc = "idle" /\ snapRes = "No frame received"
    /\ ownPc = "idle" /\ cam = NilCam
    /\ snapChan # NilChan /\ dev[snapChan].st = "closed"
    /\ capPc[snapChan] = "done"

\* C5: Close on a nil handle returns to its caller at once and changes no
\* pipeline field, no channel and no driver state, and makes no driver call.
C5_IdempotentClose ==
    [][(ownPc = "Close" /\ cam = NilCam /\ ownPc' # "Close") =>
         /\ ownPc' = CloseReturn(ownRet)
         /\ closeDrv' = FALSE
         /\ UNCHANGED <<pipeVars, chanVars, drvVars, drainChan, capVars, panicked>>]_vars

\* A Close call on a pipeline an earlier Close had closed (its capture
\* goroutine had stopped) has returned without a driver call.
C5_Witness ==
    /\ ownPc = "idle" /\ cam = NilCam /\ ~closeDrv
    /\ \E h \in Handles :
          dev[h].st = "closed" /\ h \in stopCalled /\ capPc[h] = "done"

RollbackErrs ==
    {"unsupported format", "unsupported resolution", "SetImageFormat",
     "GetFramer", "StartStreaming"}

\* C6: after Open returned an error raised once the handle was acquired, the
\* handle is nil, the device closed, the delivery channel closed and no capture
\* goroutine runs; the rollback's close(c.stream) finds the channel open, its
\* stop send finds the stop channel empty and its drain loop finds the channel
\* closed; after the driver's Open failed the handle is nil.
C6_FailedOpenRollback ==
    /\ (ownPc = "idle" /\ ownErr \in RollbackErrs) =>
          /\ cam = NilCam
          /\ stream \in closedStream
          /\ dev[stream].st = "closed"
          /\ capPc[stream] = "none"
          /\ NoCapture
    /\ (ownPc = "idle" /\ ownErr = "webcam.Open") => cam = NilCam
    /\ ownPc = "OpenNeg" => (stream # NilChan /\ stream \notin closedStream)
    /\ (ownPc = "Close" /\ ownRet = "Rollback") =>
          (cam # NilCam /\ stop \notin stopFull /\ stream \in closedStream)
    /\ (ownPc = "Drain" /\ ownRet = "Rollback") => drainChan \in closedStream

\* Open on an open pipeline closed the running session, then failed at
\* StartStreaming and has rolled back.
C6_Witness ==
    /\ ownPc = "idle" /\ ownErr = "StartStreaming"
    /\ cam = NilCam /\ closeDrv
    /\ \E h \in Handles : h # stream /\ capPc[h] = "done"

\* The capture goroutine s is at the handoff with no receiver in Snap and no
\* stop request pending.
NobodyReady(s) == capPc[s] = "select" /\ ~SnapReady /\ ~StopReady /\ ~panicked

\* C7: at a handoff with no consumer parked and no stop pending the capture
\* goroutine can step without anyone else, no step taken there panics, the
\* capture goroutine's step releases the buffer and returns to waiting for
\* hardware, and no Snap call ever gets a dropped buffer.
C7_DropOnFull ==
    /\ [](\A s \in Handles : NobodyReady(s) => ENABLED CaptureDefault(s))
    /\ [][\A s \in Handles :
            NobodyReady(s) =>
               /\ ~panicked'
               /\ capPc'[s] # "select" =>
                     /\ capPc'[s] = "wait"
                     /\ bufs'[capBuf[s]].rel = 1
                     /\ bufs'[capBuf[s]].by = "drop"]_vars
    /\ [](\A b \in Bufs :
            bufs[b].by = "drop" =>
               /\ snapBuf # b
               /\ bufs[b].st = "gone"
               /\ \A i \in 1..Len(delivered) : delivered[i] # b)

\* A buffer was dropped and a later one was returned by Snap.
C7_Witness ==
    \E b, c \in Bufs :
        /\ b < c
        /\ bufs[b].by = "drop" /\ bufs[b].rel = 1
        /\ bufs[c].st = "frame"
        /\ delivered = <<c>>

\* C8: the buffers Snap returned are buffers GetFrame produced, in the order
\* GetFrame produced them, none twice.
C8_FifoWithGaps ==
    /\ \A i \in 1..Len(delivered) : delivered[i] < nextBuf
    /\ \A i, j \in 1..Len(delivered) : i < j => delivered[i] < delivered[j]

\* Two frames were returned with a dropped one between them.
C8_Witness ==
    /\ Len(delivered) = 2
    /\ delivered[2] > delivered[1] + 1
    /\ bufs[delivered[1] + 1].by = "drop"
    /\ bufs[delivered[1]].sess = bufs[delivered[2]].sess

\* C9: a buffer whose length differs from the precomputed size yields the
\* length error, no Frame and one call of the release callback (none when it is
\* nil); a buffer of that length yields a Frame and no call, and afterwards one
\* call per Frame.Release().
C9_LengthValidation ==
    /\ dPc \in {"frame", "failed"} => (dPc = "failed" <=> dBuf.len # dDec.size)
    /\ dPc = "failed" =>
          /\ dOut.err = "WrongLength"
          /\ dOut.frame = NoFrame
          /\ dRelCalls = IF dRel THEN 1 ELSE 0
    /\ dPc = "frame" =>
          /\ dOut.err = "nil"
          /\ dOut.frame # NoFrame
          /\ dRelCalls = IF dRel THEN dReleases ELSE 0

\* A padded decoder refused a short buffer and called the release callback.
C9_Witness ==
    /\ dPc = "failed" /\ padded /\ dRel /\ dRelCalls = 1
    /\ dBuf.len = dDec.size - 1

\* C10: without padding the stride is the width, and At(x, y) is the three bytes
\* at offset 3*(width*y + x) with alpha 0xFF.
C10_PixelAddressing ==
    (dPc = "frame" /\ ~padded) =>
        /\ dOut.frame.width = dW
        /\ dPix # <<>> =>
             dPix = <<ByteAt(dBuf, 3 * (dW * dY + dX)),
                      ByteAt(dBuf, 3 * (dW * dY + dX) + 1),
                      ByteAt(dBuf, 3 * (dW * dY + dX) + 2), 255>>

\* The matching rule: a fixed size matched exactly, or a value of the range
\* that is a whole number of steps above its lower end.
FitsRule(min, max, step, v) ==
    \/ min = max /\ step = 0 /\ v = min
    \/ /\ step # 0 /\ min <= v /\ v <= max
       /\ \E k \in 0..(v - min) : min + k * step = v

\* C11: canFit answers true exactly when the matching rule holds of its
\* arguments, Match exactly when the rule holds of the width against the width
\* range and of the height against the height range; canFit(100,100,0,100) and
\* canFit(100,200,10,110) are true, canFit(100,200,10,105) is false.
C11_FrameSizeMatching ==
    /\ fPc = "canFit" => (fOut <=> FitsRule(fIn.min, fIn.max, fIn.step, fIn.val))
    /\ fPc = "Match" =>
          (fOut <=> /\ FitsRule(mIn.fs.MinWidth, mIn.fs.MaxWidth, mIn.fs.StepWidth, mIn.w)
                    /\ FitsRule(mIn.fs.MinHeight, mIn.fs.MaxHeight, mIn.fs.StepHeight,
                                mIn.h))
    /\ canFit(100, 100, 0, 100)
    /\ ~canFit(100, 200, 10, 105)
    /\ canFit(100, 200, 10, 110)

\* Match accepted a size whose width is a fixed value and whose height lies one
\* step above the lower end of a stepped range.
C11_Witness ==
    /\ fPc = "Match" /\ fOut
    /\ mIn.fs.StepWidth = 0
    /\ mIn.fs.StepHeight = 2 /\ mIn.h = mIn.fs.MinHeight + 2

\* The smallest multiple of m that is >= v.
RoundUp(v, m) ==
    CHOOSE r \in {m * k : k \in 0..((v \div m) + 1)} : r >= v /\ r - m < v

\* C12: with padding the stride is the width rounded up to a multiple of 32, the
\* row count the height rounded up to a multiple of 16, the size 3 * stride *
\* rows, and At(x, y) is the three bytes at offset stride*y*3 + x*3; width 50,
\* height 10 give stride 64, rows 16, size 3072.
C12_PaddingArithmetic ==
    /\ (padded /\ dPc # "idle") =>
          /\ dDec.bw = RoundUp(dW, 32)
          /\ dDec.size = 3 * RoundUp(dW, 32) * RoundUp(dH, 16)
          /\ dPc = "frame" =>
                /\ dOut.frame.width = RoundUp(dW, 32)
                /\ dBuf.len = 3 * RoundUp(dW, 32) * RoundUp(dH, 16)
                /\ dPix # <<>> =>
                      dPix = <<ByteAt(dBuf, RoundUp(dW, 32) * dY * 3 + dX * 3),
                               ByteAt(dBuf, RoundUp(dW, 32) * dY * 3 + dX * 3 + 1),
                               ByteAt(dBuf, RoundUp(dW, 32) * dY * 3 + dX * 3 + 2), 255>>
    /\ newFramerRGB3(TRUE, 50, 10) = [size |-> 3072, bw |-> 64, w |-> 50, h |-> 10]

\* A padded decoder for width 33 and height 17 (stride 64, 32 rows) gave a Frame,
\* and a pixel of a row below the first was read.
C12_Witness ==
    /\ padded /\ dPc = "frame"
    /\ dW = 33 /\ dH = 17 /\ dDec.bw = 64 /\ dDec.size = 3 * 64 * 32
    /\ dPix # <<>> /\ dY > 0 /\ dX > 0

\* C13: once the capture goroutine of a session has ended on a WaitForFrame or
\* GetFrame error, a Snap call parked on that session's delivery channel can
\* return, with "No frame received".
C13_SnapAfterDriverFailure ==
    \A s \in Handles :
        (capPc[s] = "failed" /\ snapPc = "parked" /\ snapChan = s) =>
            ENABLED SnapClosed

\* C14: while a session streams, the decoder installed in the pipeline was built
\* for the width, height and frame size SetImageFormat returned.
C14_NegotiatedGeometry ==
    \A h \in Handles :
        (cam = h /\ dev[h].st = "streaming") =>
            /\ framer # NilFramer
            /\ framer.w = dev[h].w
            /\ framer.h = dev[h].h
            /\ framer.size = dev[h].size

\* The capture goroutine of session s is running.
Live(s) == capPc[s] \in {"wait", "get", "select"}

\* The outcomes of the handoff of buffer b by the capture goroutine s: the send
\* case delivered it to the receiver parked in Snap or in Close's range loop, the
\* stop case was taken, or the default case dropped it.
SentToSnap(s, b) ==
    /\ bufs'[b].st = "snap" /\ bufs'[b].rel = 0 /\ snapBuf' = b
    /\ capPc'[s] = "wait"
    /\ UNCHANGED <<stopFull, closedStream>>
SentToDrain(s, b) ==
    /\ bufs'[b].by = "drain" /\ bufs'[b].rel = 1 /\ ownPc = "Drain"
    /\ capPc'[s] = "wait"
    /\ UNCHANGED <<stopFull, closedStream, snapBuf>>
StopTaken(s, b) ==
    /\ bufs'[b].by = "stop" /\ bufs'[b].rel = 1
    /\ stop \in stopFull /\ stopFull' = stopFull \ {stop}
    /\ stream = s /\ s \notin closedStream /\ closedStream' = closedStream \cup {s}
    /\ capPc'[s] = "done"
    /\ UNCHANGED <<snapBuf, nextBuf>>
Dropped(s, b) ==
    /\ bufs'[b].by = "drop" /\ bufs'[b].rel = 1
    /\ capPc'[s] = "wait"
    /\ UNCHANGED <<stopFull, closedStream, snapBuf>>

\* One for each handoff outcome that happened.
Outcomes(s, b) ==
    (IF SentToSnap(s, b) THEN 1 ELSE 0) + (IF SentToDrain(s, b) THEN 1 ELSE 0)
    + (IF StopTaken(s, b) THEN 1 ELSE 0) + (IF Dropped(s, b) THEN 1 ELSE 0)

\* C15: each handoff ends in exactly one of: sent to the parked receiver, stop
\* taken, dropped; when stop is taken the buffer is released, the delivery
\* channel closed and the goroutine ended for good.  A delivery channel is
\* closed only while open, by its capture goroutine or by Open's rollback (which
\* never started one), it is closed once its session is closed, and a running
\* capture goroutine only ever faces its own, open channel.
C15_HandoffAndStop ==
    /\ [][\A s \in Handles :
            (capPc[s] = "select" /\ capPc'[s] # "select") =>
                /\ ~panicked'
                /\ capBuf'[s] = NoBuf
                /\ Outcomes(s, capBuf[s]) = 1]_vars
    /\ [][\A s \in Handles : capPc[s] = "done" => capPc'[s] = "done"]_vars
    /\ [][\A ch \in Handles :
            /\ ch \in closedStream => ch \in closedStream'
            /\ (ch \notin closedStream /\ ch \in closedStream') =>
                  /\ ~panicked'
                  /\ stream = ch
                  /\ \/ capPc[ch] = "select" /\ capPc'[ch] = "done"
                     \/ capPc[ch] = "none" /\ ownPc = "OpenNeg" /\ ownPc' = "Close"]_vars
    /\ [](\A ch \in Handles :
            /\ ch \in closedStream => capPc[ch] \in {"done", "none"}
            /\ dev[ch].st = "closed" => ch \in closedStream
            /\ Live(ch) => (stream = ch /\ stop = ch /\ ch \notin closedStream))

\* In one session a buffer was delivered to Snap, one was dropped and the stop
\* case took the third and closed the channel; the next session's channel was
\* closed by Open's rollback.
C15_Witness ==
    /\ \E b \in Bufs : bufs[b].st \in {"snap", "frame"} /\ bufs[b].sess = 1
    /\ \E b \in Bufs : bufs[b].by = "drop" /\ bufs[b].sess = 1
    /\ \E b \in Bufs : bufs[b].by = "stop" /\ bufs[b].sess = 1
    /\ capPc[1] = "done" /\ 1 \in closedStream
    /\ capPc[2] = "none" /\ 2 \in closedStream

\* Buffers fetched from the driver that the pipeline holds: not released and
\* not handed to a receiver.
InPipeline == {b \in Bufs : bufs[b].st = "capture"}

\* C16: the pipeline holds at most one fetched buffer, the one its capture
\* goroutine is handing off; a buffer leaves the capture goroutine for a
\* receiver only in a step in which a Snap call, or Close's range loop, is
\* parked on the delivery channel, and it is then in that receiver's hands.
C16_NoBacklog ==
    /\ [](/\ Cardinality(InPipeline) <= 1
          /\ \A b \in InPipeline :
                /\ capPc[bufs[b].sess] = "select"
                /\ capBuf[bufs[b].sess] = b
                /\ bufs[b].rel = 0
          /\ \A s \in Handles : capPc[s] # "select" => capBuf[s] = NoBuf)
    /\ [][\A b \in Bufs :
            (bufs[b].st = "capture" /\ bufs'[b].st # "capture") =>
               \/ /\ bufs'[b].st = "snap"
                  /\ snapPc = "parked" /\ snapChan = stream /\ stream = bufs[b].sess
                  /\ snapPc' = "decode" /\ snapBuf' = b
               \/ /\ bufs'[b].by = "drain"
                  /\ ownPc = "Drain" /\ drainChan = stream /\ stream = bufs[b].sess
               \/ bufs'[b].by \in {"stop", "drop"}]_vars

\* The capture goroutine holds the third buffer at the handoff with nobody
\* ready, after one buffer was dropped and one is in the consumer's hands.
C16_Witness ==
    \E s \in Handles :
        /\ capPc[s] = "select" /\ InPipeline = {capBuf[s]}
        /\ ~SnapReady /\ ~StopReady
        /\ \E b \in Bufs : bufs[b].by = "drop" /\ bufs[b].sess = s
        /\ \E b \in Bufs : bufs[b].st = "frame" /\ bufs[b].sess = s

\* The sessions whose capture goroutine is running.
LiveCaptures == {s \in Handles : Live(s)}

\* C17: at most one capture goroutine runs at any time; while the pipeline is
\* open after a successful Open (and the process has not died of a panic) it is
\* the one of the open session; a capture goroutine is started only when none
\* runs, and it steps only while the handle and both channels of the pipeline
\* are those of its own session.
C17_SingleCapture ==
    /\ [](Cardinality(LiveCaptures) <= 1)
    /\ []((ownPc = "idle" /\ cam # NilCam /\ ~panicked) => LiveCaptures = {cam})
    /\ [][\A s \in Handles :
            /\ (capPc[s] = "none" /\ capPc'[s] # "none") =>
                  (LiveCaptures = {} /\ capPc'[s] = "wait" /\ cam = s)
            /\ (Live(s) /\ (capPc'[s] # capPc[s] \/ capBuf'[s] # capBuf[s])) =>
                  (cam = s /\ stream = s /\ stop = s)]_vars

\* Open on an open pipeline: the first session's capture goroutine has ended,
\* the second session's one runs and has fetched a buffer.
C17_Witness ==
    /\ capPc[1] = "done" /\ cam = 2 /\ LiveCaptures = {2}
    /\ ownPc = "idle" /\ ownErr = "nil"
    /\ \E b \in Bufs : bufs[b].sess = 2 /\ bufs[b].st = "capture"

\* A WaitForFrame call of the capture goroutine s timed out.
TimedOut(s) == capPc[s] = "wait" /\ capPc'[s] = "wait" /\ tick' # tick

\* C18: a WaitForFrame timeout leaves the capture goroutine waiting again and
\* changes nothing else: no buffer, no channel, no error; an error of
\* WaitForFrame other than a timeout, and an error of GetFrame, ends the capture
\* goroutine in a panic, with no buffer fetched and no channel touched.
C18_TimeoutVersusFatal ==
    /\ [][\A s \in Handles :
            TimedOut(s) =>
                /\ ~panicked'
                /\ UNCHANGED <<pipeVars, chanVars, drvVars, ownVars, capPc, capBuf,
                               drvErr, snapVars>>]_vars
    /\ [][drvErr' # drvErr =>
            /\ panicked'
            /\ \E s \in Handles :
                  /\ capPc[s] \in {"wait", "get"}
                  /\ capPc'[s] = "failed"
                  /\ drvErr' = IF capPc[s] = "wait" THEN "WaitForFrame" ELSE "GetFrame"
            /\ UNCHANGED <<pipeVars, chanVars, drvVars, ownVars, capBuf, snapVars>>]_vars
    /\ []((drvErr # "none" \/ \E s \in Handles : capPc[s] = "failed") => panicked)

\* After a timeout, WaitForFrame failed with another error and the capture
\* goroutine panicked; a frame of the session is in the consumer's hands.
C18_Witness ==
    /\ drvErr = "WaitForFrame" /\ tick /\ panicked
    /\ \E s \in Handles : capPc[s] = "failed" /\ bufs[1].st = "frame" /\ bufs[1].sess = s

\* C19: every ReleaseFrame call made for a buffer went to a non-nil device
\* handle, the handle of the session that fetched the buffer.
C19_ReleaseOnOwnHandle ==
    \A b \in Bufs :
        bufs[b].rel > 0 => (bufs[b].relCam # NilCam /\ bufs[b].relCam = bufs[b].sess)

\* C20: while the pipeline is closed and no Open or Close is running, a Snap
\* call that is parked can return (with an error) without anyone else acting.
C20_SnapOnClosedReturns ==
    (snapPc = "parked" /\ cam = NilCam /\ ownPc = "idle" /\ ~panicked) =>
        ENABLED SnapClosed

====
